---- MODULE Spec2Model ----
(***************************************************************************)
(* A model of src/structures/Chat.js: the Chat class of insta.js.          *)
(* The state is one Chat object, the parts of its client it touches (the   *)
(* user cache, the chats and pendingChats caches, the emitted events), the *)
(* timers it has created, and the asynchronous calls that are suspended    *)
(* at an await or whose network response has not been handled yet.         *)
(***************************************************************************)
EXTENDS Integers, Sequences, FiniteSets, TLC

(* ------------------------------ bounds -------------------------------- *)
NumUsers == 2
NumItems == 2
MaxTime == 2
MaxSend == 2
MaxStart == 2
MaxActive == 2
MaxInactive == 1
MaxApprove == 1
MaxTypingSend == 1

UserIds == 1..NumUsers
ItemIds == 1..NumItems
TimeStamps == 1..MaxTime
SendIds == 1..MaxSend
StartIds == 1..MaxStart
ApproveIds == 1..MaxApprove
UserNames == {"a", "b"}
Texts == {"x", "y"}
ThreadID == "t1"
ChatIds == {"t1", "t2"}

VARIABLES
    messages,               \* this.messages: insertion-ordered <<Message>>
    users,                  \* this.users: pk -> reference of a User object
    leftUsers,              \* this.leftUsers: pk -> reference of a User object
    typing,                 \* this.typing
    disableTypingOnSend,    \* this._disableTypingOnSend: "null", "true", "false"
    stopTypingTimeout,      \* this._stopTypingTimeout: 0 (null) or a timer handle
    keepTypingAliveInterval,\* this._keepTypingAliveInterval: 0 (null) or a handle
    sentMessagesPromises,   \* this._sentMessagesPromises: item id -> send whose resolve it holds
    adminUserIDs, lastActivityAt, muted, isPin, named, pending, isGroup, type,
    cacheUsers,             \* client.cache.users: pk -> reference of a User object
    userHeap,               \* the User objects ever constructed, by reference
    cacheChats,             \* keys of client.cache.chats
    cachePendingChats,      \* keys of client.cache.pendingChats
    emitted,                \* payloads of the messageCreate events emitted
    sends,                  \* the send calls: position, broadcasts issued, item id answered,
                            \* whether the handler called _keepTypingAlive, promise
    startCalls,             \* the startTyping calls: position, and the disableOnSend
                            \* argument while the call is suspended
    timeouts,               \* handles of the one-shot timers still scheduled
    intervals,              \* handles of the repeating timers still scheduled
    approveCalls,           \* the approve calls: position, and whether the chat
                            \* was pending when approve was called
    nActive,                \* indicateActivity({isActive: true}) calls issued
    nInactive,              \* indicateActivity({isActive: false}) calls issued
    peerUsers               \* this.users of another Chat of the same client

mergeVars == <<users, leftUsers, adminUserIDs, lastActivityAt, muted, isPin, named,
               pending, isGroup, type, cacheUsers, userHeap>>
msgVars == <<messages, sentMessagesPromises, sends>>
typingVars == <<typing, disableTypingOnSend, stopTypingTimeout, keepTypingAliveInterval,
                startCalls, timeouts, intervals, nActive, nInactive>>
peerVars == <<peerUsers>>
clientVars == <<cacheChats, cachePendingChats, emitted, approveCalls, peerVars>>
vars == <<mergeVars, msgVars, typingVars, clientVars>>

(* --------------------------- Collection (Map) -------------------------- *)
\* a set that drops every other key of the collection
MapSetAlone(m, k, v) == [x \in {k} |-> v]
\* Collection.set on a keyed collection whose order is not observed
MapSet(m, k, v) == [x \in (DOMAIN m) \cup {k} |-> IF x = k THEN v ELSE m[x]]
\* Collection.delete
MapDelete(m, k) == [x \in (DOMAIN m) \ {k} |-> m[x]]
EmptyMap == [x \in {} |-> 0]

\* undefined, as a Message-shaped value
Undefined == [item_id |-> 0, text |-> "undefined"]

\* this.messages.has(id)
MsgHas(msgs, id) == \E k \in 1..Len(msgs) : msgs[k].item_id = id
\* this.messages.get(id)
MsgGet(msgs, id) ==
    IF MsgHas(msgs, id)
    THEN msgs[CHOOSE k \in 1..Len(msgs) : msgs[k].item_id = id]
    ELSE Undefined
\* a collection that appends on every set
MsgSetAppends(msgs, m) == Append(msgs, m)
\* this.messages.set(id, m): a Map keeps the position of a key it already holds
MsgSet(msgs, m) ==
    IF MsgHas(msgs, m.item_id)
    THEN [k \in 1..Len(msgs) |-> IF msgs[k].item_id = m.item_id THEN m ELSE msgs[k]]
    ELSE Append(msgs, m)
\* this.messages.first()
MsgFirst(msgs) == IF Len(msgs) = 0 THEN Undefined ELSE msgs[1]
MsgKeys(msgs) == {msgs[k].item_id : k \in 1..Len(msgs)}

(* ------------------------------ promises ------------------------------- *)
\* a promise records which code path resolved it: "response" or "merge"
Pending == [st |-> "pending", val |-> Undefined, by |-> "none"]
Resolved(m, by) == [st |-> "resolved", val |-> m, by |-> by]
\* resolve(m) of the promise of send s: settles it once, later calls do nothing
ResolveSend(sn, s, m, by) ==
    IF sn[s].promise.st = "pending" THEN [sn EXCEPT ![s].promise = Resolved(m, by)] ELSE sn

(* ------------------------- User and Message ---------------------------- *)
\* new User(client, data)
UserNew(user) == [pk |-> user.pk, username |-> user.username]
\* User._patch(data): field-level merge of the record onto the object
UserPatch(obj, user) == [obj EXCEPT !.username = user.username]

\* new Message(client, threadID, item): a fresh Message; a waiter registered
\* under its identifier is resolved with it and removed
MessageNew(item, acc) ==
    LET m == [item_id |-> item.item_id, text |-> item.text]
    IN  IF item.item_id \in DOMAIN acc.waiters
        THEN [msg |-> m,
              waiters |-> MapDelete(acc.waiters, item.item_id),
              sends |-> ResolveSend(acc.sends, acc.waiters[item.item_id], m, "merge")]
        ELSE [msg |-> m, waiters |-> acc.waiters, sends |-> acc.sends]

(* ------------------------------- _patch -------------------------------- *)
\* an iteration that constructs a User whether or not the cache holds one
PatchUserEntryAlwaysNew(user, acc) ==
    [coll |-> MapSet(acc.coll, user.pk, Len(acc.heap) + 1),
     cache |-> MapSet(acc.cache, user.pk, Len(acc.heap) + 1),
     heap |-> Append(acc.heap, UserNew(user))]

\* one iteration of data.users.forEach / data.left_users.forEach on collection coll
PatchUserEntry(user, acc) ==
    IF user.pk \in DOMAIN acc.cache
    THEN [coll |-> MapSet(acc.coll, user.pk, acc.cache[user.pk]),
          cache |-> acc.cache,
          heap |-> [acc.heap EXCEPT ![acc.cache[user.pk]] = UserPatch(@, user)]]
    ELSE [coll |-> MapSet(acc.coll, user.pk, Len(acc.heap) + 1),
          cache |-> MapSet(acc.cache, user.pk, Len(acc.heap) + 1),
          heap |-> Append(acc.heap, UserNew(user))]

RECURSIVE PatchUserList(_, _)
PatchUserList(list, acc) ==
    IF list = <<>> THEN acc
    ELSE PatchUserList(Tail(list), PatchUserEntry(Head(list), acc))

\* one iteration of data.items.forEach
PatchItemEntry(item, acc) ==
    LET made == MessageNew(item, acc)
    IN  [msgs |-> MsgSet(acc.msgs, made.msg),
         waiters |-> made.waiters,
         sends |-> made.sends]

RECURSIVE PatchItemList(_, _)
PatchItemList(list, acc) ==
    IF list = <<>> THEN acc
    ELSE PatchItemList(Tail(list), PatchItemEntry(Head(list), acc))

\* a _patch that does not take the timestamp of the snapshot
PatchResultKeepsTime(data, st) ==
    LET u == PatchUserList(data.users,
                 [coll |-> st.users, cache |-> st.cacheUsers, heap |-> st.userHeap])
        l == PatchUserList(data.left_users,
                 [coll |-> st.leftUsers, cache |-> u.cache, heap |-> u.heap])
        i == PatchItemList(data.items,
                 [msgs |-> st.messages, waiters |-> st.waiters, sends |-> st.sends])
    IN  [users |-> u.coll, leftUsers |-> l.coll, cacheUsers |-> l.cache,
         userHeap |-> l.heap, messages |-> i.msgs, waiters |-> i.waiters,
         sends |-> i.sends,
         adminUserIDs |-> data.admin_user_ids,
         lastActivityAt |-> MaxTime,
         muted |-> data.muted, isPin |-> data.is_pin, named |-> data.named,
         pending |-> data.pending, isGroup |-> data.is_group,
         type |-> data.thread_type]

\* the state of the Chat and of the user cache after this._patch(data) from state st
PatchResult(data, st) ==
    LET u == PatchUserList(data.users,
                 [coll |-> st.users, cache |-> st.cacheUsers, heap |-> st.userHeap])
        l == PatchUserList(data.left_users,
                 [coll |-> st.leftUsers, cache |-> u.cache, heap |-> u.heap])
        i == PatchItemList(data.items,
                 [msgs |-> st.messages, waiters |-> st.waiters, sends |-> st.sends])
    IN  [users |-> u.coll, leftUsers |-> l.coll, cacheUsers |-> l.cache,
         userHeap |-> l.heap, messages |-> i.msgs, waiters |-> i.waiters,
         sends |-> i.sends,
         adminUserIDs |-> data.admin_user_ids,
         lastActivityAt |-> data.last_activity_at,
         muted |-> data.muted, isPin |-> data.is_pin, named |-> data.named,
         pending |-> data.pending, isGroup |-> data.is_group,
         type |-> data.thread_type]

ChatState ==
    [users |-> users, leftUsers |-> leftUsers, cacheUsers |-> cacheUsers,
     userHeap |-> userHeap, messages |-> messages, waiters |-> sentMessagesPromises,
     sends |-> sends]

\* this._patch(data)
patch(data) ==
    \E r \in {PatchResult(data, ChatState)} :
        /\ users' = r.users
        /\ leftUsers' = r.leftUsers
        /\ cacheUsers' = r.cacheUsers
        /\ userHeap' = r.userHeap
        /\ messages' = r.messages
        /\ sentMessagesPromises' = r.waiters
        /\ sends' = r.sends
        /\ adminUserIDs' = r.adminUserIDs
        /\ lastActivityAt' = r.lastActivityAt
        /\ muted' = r.muted
        /\ isPin' = r.isPin
        /\ named' = r.named
        /\ pending' = r.pending
        /\ isGroup' = r.isGroup
        /\ type' = r.type
        /\ UNCHANGED <<typingVars, clientVars>>

(* ----------------------------- snapshots ------------------------------- *)
UserRecords == [pk : UserIds, username : UserNames]
Items == [item_id : ItemIds, text : Texts]
SeqUpTo1(S) == {<<>>} \cup {<<x>> : x \in S}
\* the items of a thread carry distinct identifiers
ItemLists ==
    SeqUpTo1(Items) \cup {<<p[1], p[2]>> : p \in {q \in Items \X Items : q[1].item_id # q[2].item_id}}

\* the attributes the server reports together for a private and for a group thread
PrivateThread ==
    [admin_user_ids |-> <<>>, muted |-> FALSE, is_pin |-> FALSE, named |-> FALSE,
     is_group |-> FALSE, thread_type |-> "private"]
GroupThread ==
    [admin_user_ids |-> <<1>>, muted |-> TRUE, is_pin |-> TRUE, named |-> TRUE,
     is_group |-> TRUE, thread_type |-> "group"]

Snapshot(us, ls, its, attrs, at, pend) ==
    [users |-> us, left_users |-> ls, items |-> its,
     admin_user_ids |-> attrs.admin_user_ids, last_activity_at |-> at,
     muted |-> attrs.muted, is_pin |-> attrs.is_pin, named |-> attrs.named,
     pending |-> pend, is_group |-> attrs.is_group, thread_type |-> attrs.thread_type]

Pks(list) == {list[k].pk : k \in 1..Len(list)}
\* the server lists a user as a member or as a former member, not as both
MemberLists ==
    {p \in SeqUpTo1(UserRecords) \X SeqUpTo1(UserRecords) : Pks(p[1]) \cap Pks(p[2]) = {}}
\* snapshots that change membership and attributes
MemberSnapshots ==
    {Snapshot(p[1], p[2], <<>>, attrs, at, pend) :
        p \in MemberLists,
        attrs \in {PrivateThread, GroupThread}, at \in TimeStamps, pend \in BOOLEAN}
\* snapshots that bring message items: a fetched thread, and a realtime push
ThreadSnapshots(pends) ==
    {Snapshot(<<>>, <<>>, its, PrivateThread, 1, pend) : its \in ItemLists, pend \in pends}
PushSnapshots(pends) ==
    {Snapshot(<<>>, <<>>, its, PrivateThread, 1, pend) : its \in SeqUpTo1(Items), pend \in pends}

(* --------------------------- the constructor --------------------------- *)
\* the other Chat holds no user yet
NoPeer == peerUsers = EmptyMap

NewChat ==
    [users |-> EmptyMap, leftUsers |-> EmptyMap, cacheUsers |-> EmptyMap,
     userHeap |-> <<>>, messages |-> <<>>, waiters |-> EmptyMap,
     sends |-> [s \in SendIds |-> [pc |-> "idle", item |-> 0, broadcasts |-> 0,
                                   keptAlive |-> FALSE, promise |-> Pending]]]

\* new Chat(client, threadID, data)
constructor(data) ==
    \E r \in {PatchResult(data, NewChat)} :
        /\ messages = r.messages
        /\ users = r.users
        /\ leftUsers = r.leftUsers
        /\ typing = FALSE
        /\ disableTypingOnSend = "null"
        /\ stopTypingTimeout = 0
        /\ keepTypingAliveInterval = 0
        /\ sentMessagesPromises = r.waiters
        /\ adminUserIDs = r.adminUserIDs
        /\ lastActivityAt = r.lastActivityAt
        /\ muted = r.muted
        /\ isPin = r.isPin
        /\ named = r.named
        /\ pending = r.pending
        /\ isGroup = r.isGroup
        /\ type = r.type
        /\ cacheUsers = r.cacheUsers
        /\ userHeap = r.userHeap
        /\ sends = r.sends
        /\ startCalls = [c \in StartIds |-> [pc |-> "idle", disableOnSend |-> "undefined"]]
        /\ timeouts = {}
        /\ intervals = {}
        /\ approveCalls = [a \in ApproveIds |-> [pc |-> "idle", wasPending |-> FALSE]]
        /\ nActive = 0
        /\ nInactive = 0
        /\ emitted = <<>>

(* ------------------------- typing indicator ---------------------------- *)
\* a _keepTypingAlive that sends the signal without looking at this.typing
keepTypingAliveAlways ==
    /\ nActive' = nActive + 1
    /\ intervals' = intervals

\* this._keepTypingAlive(), up to its await: the signal is issued, or the
\* repeating timer the field names is cleared
keepTypingAlive ==
    IF typing
    THEN /\ nActive' = nActive + 1
         /\ intervals' = intervals
    ELSE /\ nActive' = nActive
         /\ intervals' = IF keepTypingAliveInterval # 0
                         THEN intervals \ {keepTypingAliveInterval}
                         ELSE intervals

\* this.startTyping({ duration, disableOnSend }), up to its await
startTyping(c, disableOnSend) ==
    /\ startCalls[c].pc = "idle"
    /\ \A b \in StartIds : b < c => startCalls[b].pc # "idle"
    /\ typing' = TRUE
    /\ nActive' = nActive + 1
    /\ startCalls' = [startCalls EXCEPT ![c] = [pc |-> "awaiting", disableOnSend |-> disableOnSend]]
    /\ UNCHANGED <<disableTypingOnSend, stopTypingTimeout, keepTypingAliveInterval,
                   timeouts, intervals, nInactive>>
    /\ UNCHANGED <<mergeVars, msgVars, clientVars>>

\* a startTyping that forgets to schedule its one-shot timer
startTypingResumeNoTimeout(c) ==
    /\ startCalls[c].pc = "awaiting"
    /\ disableTypingOnSend' =
           IF startCalls[c].disableOnSend # "undefined" THEN startCalls[c].disableOnSend ELSE "true"
    /\ keepTypingAliveInterval' = c
    /\ intervals' = intervals \cup {c}
    /\ startCalls' = [startCalls EXCEPT ![c] = [pc |-> "done", disableOnSend |-> "undefined"]]
    /\ UNCHANGED <<typing, nActive, nInactive, stopTypingTimeout, timeouts>>
    /\ UNCHANGED <<mergeVars, msgVars, clientVars>>

\* startTyping after its await: the flag and the two timers; the handle of
\* the timers call c creates is c
startTypingResume(c) ==
    /\ startCalls[c].pc = "awaiting"
    /\ disableTypingOnSend' =
           IF startCalls[c].disableOnSend # "undefined" THEN startCalls[c].disableOnSend ELSE "true"
    /\ stopTypingTimeout' = c
    /\ timeouts' = timeouts \cup {c}
    /\ keepTypingAliveInterval' = c
    /\ intervals' = intervals \cup {c}
    /\ startCalls' = [startCalls EXCEPT ![c] = [pc |-> "done", disableOnSend |-> "undefined"]]
    /\ UNCHANGED <<typing, nActive, nInactive>>
    /\ UNCHANGED <<mergeVars, msgVars, clientVars>>

\* the indicateActivity call startTyping awaits rejects: startTyping ends there
startTypingRejected(c) ==
    /\ startCalls[c].pc = "awaiting"
    /\ startCalls' = [startCalls EXCEPT ![c] = [pc |-> "failed", disableOnSend |-> "undefined"]]
    /\ UNCHANGED <<typing, disableTypingOnSend, stopTypingTimeout, keepTypingAliveInterval,
                   timeouts, intervals, nActive, nInactive>>
    /\ UNCHANGED <<mergeVars, msgVars, clientVars>>

\* this.stopTyping(), up to its await (nothing follows the await); fired is
\* the set of one-shot timers that fire with this call
stopTyping(fired) ==
    /\ intervals' = IF keepTypingAliveInterval # 0
                    THEN intervals \ {keepTypingAliveInterval}
                    ELSE intervals
    /\ typing' = FALSE
    /\ nInactive' = nInactive + 1
    /\ timeouts' = timeouts \ fired
    /\ UNCHANGED <<disableTypingOnSend, stopTypingTimeout, keepTypingAliveInterval,
                   startCalls, nActive>>
    /\ UNCHANGED <<mergeVars, msgVars, clientVars>>

\* the user calls chat.stopTyping()
stopTypingCall ==
    /\ nInactive < MaxInactive
    /\ stopTyping({})

\* the one-shot timer of line 178 fires: () => this.stopTyping()
stopTypingTimeoutFires(c) ==
    /\ c \in timeouts
    /\ stopTyping({c})

\* the repeating timer of line 179 fires: () => this._keepTypingAlive()
keepTypingAliveIntervalFires(c) ==
    /\ c \in intervals
    /\ typing => nActive < MaxActive
    /\ keepTypingAlive
    /\ UNCHANGED <<typing, disableTypingOnSend, stopTypingTimeout, keepTypingAliveInterval,
                   startCalls, timeouts, nInactive>>
    /\ UNCHANGED <<mergeVars, msgVars, clientVars>>

(* -------------------------------- sends -------------------------------- *)
SendCall(s, pc, n) ==
    /\ sends[s].pc = "idle"
    /\ \A b \in SendIds : b < s => sends[b].pc # "idle"
    /\ sends' = [sends EXCEPT ![s] = [pc |-> pc, item |-> 0, broadcasts |-> n,
                                      keptAlive |-> FALSE, promise |-> Pending]]
    /\ UNCHANGED <<messages, sentMessagesPromises>>
    /\ UNCHANGED <<mergeVars, typingVars, clientVars>>

\* this.sendMessage(content): the promise is created and broadcastText is called
sendMessage(s) == SendCall(s, "broadcasting", 1)

\* this.sendVoice(buffer): the promise is created and broadcastVoice is called
sendVoice(s) == SendCall(s, "broadcasting", 1)

\* this.sendPhoto(attachment): the promise is created and attachment._verify() is called
sendPhoto(s) == SendCall(s, "verifying", 0)

\* attachment._verify() fulfils: broadcastPhoto is called
verifyThen(s) ==
    /\ sends[s].pc = "verifying"
    /\ sends' = [sends EXCEPT ![s].pc = "broadcasting", ![s].broadcasts = @ + 1]
    /\ UNCHANGED <<messages, sentMessagesPromises>>
    /\ UNCHANGED <<mergeVars, typingVars, clientVars>>

\* a sendPhoto that issues its broadcast although the verification rejected
verifyRejectedStillBroadcasts(s) ==
    /\ sends[s].pc = "verifying"
    /\ sends' = [sends EXCEPT ![s].pc = "failed", ![s].broadcasts = @ + 1]
    /\ UNCHANGED <<messages, sentMessagesPromises>>
    /\ UNCHANGED <<mergeVars, typingVars, clientVars>>

\* attachment._verify() rejects: its then() has no rejection handler, and
\* nothing settles the promise sendPhoto returned
verifyRejected(s) ==
    /\ sends[s].pc = "verifying"
    /\ sends' = [sends EXCEPT ![s].pc = "failed"]
    /\ UNCHANGED <<messages, sentMessagesPromises>>
    /\ UNCHANGED <<mergeVars, typingVars, clientVars>>

\* a response handler that registers the waiter and never looks at messages
SentResultNoCheck(s, itemID) ==
    [waiters |-> MapSet(sentMessagesPromises, itemID, s), sends |-> sends]

\* a response handler that resolves the promise and keeps the waiter
SentResultKeepsWaiter(s, itemID) ==
    IF MsgHas(messages, itemID)
    THEN [waiters |-> MapSet(sentMessagesPromises, itemID, s),
          sends |-> ResolveSend(sends, s, MsgGet(messages, itemID), "response")]
    ELSE [waiters |-> MapSet(sentMessagesPromises, itemID, s), sends |-> sends]

\* the waiters and the promise of send s once the broadcast answered itemID
SentResult(s, itemID) ==
    IF MsgHas(messages, itemID)
    THEN [waiters |-> MapDelete(MapSet(sentMessagesPromises, itemID, s), itemID),
          sends |-> ResolveSend(sends, s, MsgGet(messages, itemID), "response")]
    ELSE [waiters |-> MapSet(sentMessagesPromises, itemID, s), sends |-> sends]

\* a response handler that reads the flag the wrong way round
KeepAliveOnSendInverted == typing /\ disableTypingOnSend = "true"

\* whether the response handler calls this._keepTypingAlive()
KeepAliveOnSend == typing /\ disableTypingOnSend \in {"null", "false"}

\* the then() callback of broadcastText / broadcastVoice / broadcastPhoto
broadcastThen(s, itemID) ==
    /\ sends[s].pc = "broadcasting"
    /\ \A b \in SendIds : b # s => sends[b].item # itemID
    /\ IF KeepAliveOnSend
       THEN keepTypingAlive
       ELSE UNCHANGED <<nActive, intervals>>
    /\ LET r == SentResult(s, itemID)
       IN  /\ sentMessagesPromises' = r.waiters
           /\ sends' = [r.sends EXCEPT ![s].pc = "responded", ![s].item = itemID,
                                       ![s].keptAlive = KeepAliveOnSend]
    /\ UNCHANGED messages
    /\ UNCHANGED <<typing, disableTypingOnSend, stopTypingTimeout, keepTypingAliveInterval,
                   startCalls, timeouts, nInactive>>
    /\ UNCHANGED <<mergeVars, clientVars>>

\* the broadcast call rejects: its then() has no rejection handler, and
\* nothing settles the promise the send returned
broadcastRejected(s) ==
    /\ sends[s].pc = "broadcasting"
    /\ sends' = [sends EXCEPT ![s].pc = "failed"]
    /\ UNCHANGED <<messages, sentMessagesPromises>>
    /\ UNCHANGED <<mergeVars, typingVars, clientVars>>

SendActions(S) ==
    \E s \in S :
        \/ sendMessage(s)
        \/ sendVoice(s)
        \/ sendPhoto(s)
        \/ verifyThen(s)
        \/ verifyRejected(s)
        \/ \E i \in ItemIds : broadcastThen(s, i)
        \/ broadcastRejected(s)

(* -------------------- sends and merges: Spec --------------------------- *)
Init ==
    /\ \E d \in ThreadSnapshots({FALSE}) : constructor(d)
    /\ cacheChats = {ThreadID}
    /\ cachePendingChats = {}
    /\ NoPeer

Next ==
    \/ SendActions(SendIds)
    \/ \E d \in PushSnapshots({FALSE}) : patch(d)

Spec == Init /\ [][Next]_vars

(* ------------------- typing and sends: SpecTyping ---------------------- *)
DisableOnSendArgs == {"undefined", "true", "false"}

InitTyping ==
    /\ constructor(Snapshot(<<>>, <<>>, <<[item_id |-> 1, text |-> "x"]>>,
                            PrivateThread, 1, FALSE))
    /\ cacheChats = {ThreadID}
    /\ cachePendingChats = {}
    /\ NoPeer

TypingActions ==
    \/ \E c \in StartIds, d \in DisableOnSendArgs : startTyping(c, d)
    \/ \E c \in StartIds : startTypingResume(c)
    \/ stopTypingCall
    \/ \E c \in StartIds : stopTypingTimeoutFires(c)
    \/ \E c \in StartIds : keepTypingAliveIntervalFires(c)

NextTyping ==
    \/ TypingActions
    \/ \E c \in StartIds : startTypingRejected(c)
    \/ SendActions(1..MaxTypingSend)

SpecTyping == InitTyping /\ [][NextTyping]_vars

\* the event loop runs every timer that is due, and the claims about what
\* eventually happens assume that the signal calls return
FairTyping ==
    /\ InitTyping
    /\ [][TypingActions]_vars
    /\ \A c \in StartIds : WF_vars(startTypingResume(c))
    /\ \A c \in StartIds : WF_vars(stopTypingTimeoutFires(c))

(* ------------------------------ approve -------------------------------- *)
\* this.approve(), up to its await
approve(a) ==
    /\ approveCalls[a].pc = "idle"
    /\ \A b \in ApproveIds : b < a => approveCalls[b].pc # "idle"
    /\ pending' = FALSE
    /\ approveCalls' = [approveCalls EXCEPT ![a] = [pc |-> "awaiting", wasPending |-> pending]]
    /\ UNCHANGED <<users, leftUsers, adminUserIDs, lastActivityAt, muted, isPin, named,
                   isGroup, type, cacheUsers, userHeap>>
    /\ UNCHANGED <<cacheChats, cachePendingChats, emitted>>
    /\ UNCHANGED <<msgVars, typingVars, peerVars>>

\* an approve that leaves the chat in the pendingChats cache
approveResumeKeepsPendingChat(a) ==
    /\ approveCalls[a].pc = "awaiting"
    /\ cacheChats' = cacheChats \cup {ThreadID}
    /\ emitted' = Append(emitted, MsgFirst(messages))
    /\ approveCalls' = [approveCalls EXCEPT ![a].pc = "done"]
    /\ UNCHANGED <<cachePendingChats, mergeVars, msgVars, typingVars, peerVars>>

\* approve after its await: the caches and the messageCreate event
approveResume(a) ==
    /\ approveCalls[a].pc = "awaiting"
    /\ cacheChats' = IF ThreadID \notin cacheChats THEN cacheChats \cup {ThreadID} ELSE cacheChats
    /\ cachePendingChats' = cachePendingChats \ {ThreadID}
    /\ emitted' = Append(emitted, MsgFirst(messages))
    /\ approveCalls' = [approveCalls EXCEPT ![a].pc = "done"]
    /\ UNCHANGED <<mergeVars, msgVars, typingVars, peerVars>>

\* an approve that restores pending when its network call rejects
approveRejectedRollsBack(a) ==
    /\ approveCalls[a].pc = "awaiting"
    /\ approveCalls' = [approveCalls EXCEPT ![a].pc = "failed"]
    /\ pending' = approveCalls[a].wasPending
    /\ UNCHANGED <<users, leftUsers, adminUserIDs, lastActivityAt, muted, isPin, named,
                   isGroup, type, cacheUsers, userHeap>>
    /\ UNCHANGED <<cacheChats, cachePendingChats, emitted>>
    /\ UNCHANGED <<msgVars, typingVars, peerVars>>

\* the network approve call rejects: approve ends there and rejects
approveRejected(a) ==
    /\ approveCalls[a].pc = "awaiting"
    /\ approveCalls' = [approveCalls EXCEPT ![a].pc = "failed"]
    /\ UNCHANGED <<cacheChats, cachePendingChats, emitted>>
    /\ UNCHANGED <<mergeVars, msgVars, typingVars, peerVars>>

(* ------------------- approve and merges: SpecApprove ------------------- *)
\* where the client keeps the chat: not cached yet, active, or pending
CachePlacements ==
    {[chats |-> {"t2"}, pendingChats |-> {}],
     [chats |-> {"t1", "t2"}, pendingChats |-> {}],
     [chats |-> {"t2"}, pendingChats |-> {"t1"}]}

InitApprove ==
    /\ \E d \in ThreadSnapshots(BOOLEAN) : constructor(d)
    /\ \E p \in CachePlacements :
        /\ cacheChats = p.chats
        /\ cachePendingChats = p.pendingChats
    /\ NoPeer

NextApprove ==
    \/ \E a \in ApproveIds : approve(a)
    \/ \E a \in ApproveIds : approveResume(a)
    \/ \E a \in ApproveIds : approveRejected(a)
    \/ \E d \in PushSnapshots(BOOLEAN) : patch(d)

SpecApprove == InitApprove /\ [][NextApprove]_vars

(* ------------------------- merges: SpecMerge --------------------------- *)
InitMerge ==
    /\ \E d \in MemberSnapshots : constructor(d)
    /\ cacheChats = {ThreadID}
    /\ cachePendingChats = {}
    /\ NoPeer

NextMerge == \E d \in MemberSnapshots : patch(d)

SpecMerge == InitMerge /\ [][NextMerge]_vars

(* ------------- two chats and one user cache: SpecCache ----------------- *)
\* the other Chat, as far as the loop over data.users reads and writes it
PeerState == [ChatState EXCEPT !.users = peerUsers, !.leftUsers = EmptyMap]

\* _patch(data) of the other Chat, for a snapshot that lists members only:
\* the loop runs on its own users and on the client's user cache
peerPatch(data) ==
    \E r \in {PatchResult(data, PeerState)} :
        /\ peerUsers' = r.users
        /\ cacheUsers' = r.cacheUsers
        /\ userHeap' = r.userHeap
        /\ UNCHANGED <<users, leftUsers, adminUserIDs, lastActivityAt, muted, isPin, named,
                       pending, isGroup, type>>
        /\ UNCHANGED <<cacheChats, cachePendingChats, emitted, approveCalls>>
        /\ UNCHANGED <<msgVars, typingVars>>

\* snapshots of a private thread that only change membership
CacheSnapshots ==
    {Snapshot(p[1], p[2], <<>>, PrivateThread, 1, FALSE) : p \in MemberLists}

PeerSnapshots == {d \in CacheSnapshots : d.left_users = <<>>}

InitCache ==
    /\ \E d \in CacheSnapshots : constructor(d)
    /\ cacheChats = {ThreadID, "t2"}
    /\ cachePendingChats = {}
    /\ NoPeer

NextCache ==
    \/ \E d \in CacheSnapshots : patch(d)
    \/ \E d \in PeerSnapshots : peerPatch(d)

SpecCache == InitCache /\ [][NextCache]_vars

(* ------------- merges of whole snapshots: SpecPatch -------------------- *)
\* two reports of the thread that differ in every attribute
ThreadReports ==
    {[attrs |-> PrivateThread, at |-> 1, pending |-> FALSE],
     [attrs |-> GroupThread, at |-> MaxTime, pending |-> TRUE]}

\* snapshots that bring members, an item and attributes together
PatchSnapshots ==
    {Snapshot(p[1], p[2], its, t.attrs, t.at, t.pending) :
        p \in MemberLists, its \in SeqUpTo1(Items), t \in ThreadReports}

InitPatch ==
    /\ \E d \in PatchSnapshots : constructor(d)
    /\ cacheChats = {ThreadID}
    /\ cachePendingChats = {}
    /\ NoPeer

NextPatch == \E d \in PatchSnapshots : patch(d)

SpecPatch == InitPatch /\ [][NextPatch]_vars

(* ------------- merges delivered in any order: SpecTime ----------------- *)
\* snapshots of every timestamp, with or without an item
TimedSnapshots ==
    {Snapshot(<<>>, <<>>, its, attrs, at, pend) :
        its \in SeqUpTo1(Items), attrs \in {PrivateThread, GroupThread},
        at \in TimeStamps, pend \in BOOLEAN}

\* the chat is constructed from a snapshot with the latest timestamp
InitTime ==
    /\ \E d \in {e \in TimedSnapshots : e.last_activity_at = MaxTime} : constructor(d)
    /\ cacheChats = {ThreadID}
    /\ cachePendingChats = {}
    /\ NoPeer

NextTime == \E d \in TimedSnapshots : patch(d)

SpecTime == InitTime /\ [][NextTime]_vars

(* ============================== claims ================================= *)

\* C1: once the broadcast of a send has answered identifier i and i is a key
\* of messages, the promise of that send is resolved with a Message whose
\* identifier is i, and at the step that resolves it the value is the Message
\* stored under i; this covers the merge running before the response and the
\* merge running after it.
C1_SendResolves ==
    [][\A s \in SendIds :
          (sends'[s].pc = "responded" /\ MsgHas(messages', sends'[s].item)) =>
              /\ sends'[s].promise.st = "resolved"
              /\ sends'[s].promise.val.item_id = sends'[s].item
              /\ sends[s].promise.st = "pending" =>
                     sends'[s].promise.val = MsgGet(messages', sends'[s].item)]_vars

\* C1 witness: one send was resolved by its own response handler (the merge
\* came first) and another by a merge that came after its response.
C1_Witness ==
    \E s, t \in SendIds :
        /\ sends[s].promise.by = "response"
        /\ sends[t].promise.by = "merge"
        /\ sends[t].promise.val = MsgGet(messages, sends[t].item)

\* C2: a send that failed (its broadcast or its attachment verification
\* rejected) has a rejected promise, and no send issues a second broadcast.
C2_FailureRejects ==
    \A s \in SendIds :
        /\ sends[s].pc = "failed" => sends[s].promise.st = "rejected"
        /\ sends[s].broadcasts <= 1

\* C4: once stopTyping has run and the chat is Idle, no timer created by a
\* startTyping call is still scheduled.
C4_TimersTornDown ==
    (nInactive > 0 /\ typing = FALSE) => (timeouts = {} /\ intervals = {})

\* C5: a chat never has more than one scheduled repeating timer nor more
\* than one scheduled one-shot timer.
C5_NoStacking == Cardinality(intervals) <= 1 /\ Cardinality(timeouts) <= 1

\* C6: a startTyping call whose signal call returns leads to its one-shot
\* timer having fired, typing being false and one more is-inactive signal
\* having been sent than when it was called.
C6_DurationElapses ==
    \A c \in StartIds, k \in 0..(MaxInactive + MaxStart) :
        (startCalls[c].pc = "awaiting" /\ nInactive = k)
            ~> (/\ startCalls[c].pc = "done"
                /\ c \notin timeouts
                /\ typing = FALSE
                /\ nInactive > k)

\* C6 witness: the only stopTyping that ran is the one the one-shot timer of
\* call 1 made, and the chat is Idle.
C6_Witness ==
    /\ startCalls[1].pc = "done"
    /\ 1 \notin timeouts
    /\ nInactive = 1
    /\ typing = FALSE
    /\ \A c \in StartIds : c > 1 => startCalls[c].pc = "idle"

OnlyFirstStart == \A c \in StartIds : c > 1 => startCalls[c].pc = "idle"
StoppedAfterStart == startCalls[1].pc # "idle" /\ typing = FALSE

\* C7: after startTyping was called once and stopTyping has run (before or
\* after the awaited signal of startTyping returned), no step sends an
\* is-active signal as long as startTyping is not called again, and the
\* repeating timer ends up not scheduled.
C7_NoKeepAliveAfterStop ==
    /\ [][(StoppedAfterStart /\ OnlyFirstStart') => nActive' = nActive]_vars
    /\ (StoppedAfterStart /\ OnlyFirstStart) ~> (intervals = {} \/ ~OnlyFirstStart)

\* C7 witness: startTyping was called once and has set its timers,
\* stopTyping has run, the repeating timer is not scheduled, and the only
\* is-active signal sent is the one startTyping itself sent.
C7_Witness ==
    /\ OnlyFirstStart
    /\ startCalls[1].pc = "done"
    /\ typing = FALSE
    /\ intervals = {}
    /\ timeouts = {1}
    /\ nActive = 1

\* C8: handling the response of a successful send while typing is active
\* and the flag is true leaves typing false.
C8_SendStopsTyping ==
    [][\A s \in SendIds :
          (/\ sends[s].pc = "broadcasting"
           /\ sends'[s].pc = "responded"
           /\ typing
           /\ disableTypingOnSend = "true") => typing' = FALSE]_vars

\* C9: handling the response of a successful send while typing is active
\* and the flag is false sends exactly one is-active signal, leaves typing
\* true and leaves both sets of scheduled timers as they were.
C9_KeepAliveOnSend ==
    [][\A s \in SendIds :
          (/\ sends[s].pc = "broadcasting"
           /\ sends'[s].pc = "responded"
           /\ typing
           /\ disableTypingOnSend = "false") =>
              /\ nActive' = nActive + 1
              /\ typing' = TRUE
              /\ timeouts' = timeouts
              /\ intervals' = intervals]_vars

\* C9 witness: a response handler called _keepTypingAlive in a session
\* started with disableOnSend false whose timers are both scheduled.
C9_Witness ==
    \E s \in SendIds :
        /\ sends[s].keptAlive
        /\ typing
        /\ disableTypingOnSend = "false"
        /\ timeouts # {}
        /\ intervals # {}
        /\ nActive = 2

\* C3: no user identifier is a key of both users and leftUsers.
C3_MembersDisjoint == (DOMAIN users) \cap (DOMAIN leftUsers) = {}

ApproveResolves(a) == approveCalls[a].pc = "awaiting" /\ approveCalls'[a].pc = "done"

\* C10 as stated: at the step at which an approve called on a pending chat
\* that holds messages resolves, pending is false, the chat is a key of
\* chats and not of pendingChats, and exactly one messageCreate event was
\* emitted by the call, carrying the first-inserted message.
C10_ApproveResolvesNotPending ==
    [][\A a \in ApproveIds :
          (ApproveResolves(a) /\ approveCalls[a].wasPending /\ Len(messages) > 0) =>
              /\ pending' = FALSE
              /\ ThreadID \in cacheChats'
              /\ ThreadID \notin cachePendingChats'
              /\ emitted' = Append(emitted, messages'[1])]_vars

\* C10 amended: approve sets pending false when it is called; at the step at
\* which it resolves the chat is a key of chats and not of pendingChats,
\* exactly one messageCreate event is emitted, carrying messages.first(), and
\* pending is left as it is; pending turns true only by a step that is not a
\* step of approve (a merge).
C10_ApproveResolves ==
    [][\A a \in ApproveIds :
          /\ (approveCalls[a].pc = "idle" /\ approveCalls'[a].pc = "awaiting") => pending' = FALSE
          /\ ApproveResolves(a) =>
                /\ pending' = pending
                /\ ThreadID \in cacheChats'
                /\ ThreadID \notin cachePendingChats'
                /\ emitted' = Append(emitted, MsgFirst(messages'))
          /\ (pending = FALSE /\ pending' = TRUE) => approveCalls' = approveCalls]_vars

\* C10 witness: approve has resolved on a chat that was pending and in the
\* pendingChats cache; the chat is active, not pending, and the one event
\* emitted carries the first of its two messages.
C10_Witness ==
    /\ approveCalls[1].pc = "done"
    /\ approveCalls[1].wasPending
    /\ pending = FALSE
    /\ ThreadID \in cacheChats
    /\ ThreadID \notin cachePendingChats
    /\ Len(emitted) = 1
    /\ Len(messages) = 2
    /\ emitted[1] = messages[1]

\* C11: approve sets pending false when it is called; the step at which its
\* network call rejects ends the call as rejected and leaves pending (no
\* roll-back), the chats and pendingChats caches and the emitted events as
\* they are.
C11_ApproveFails ==
    [][\A a \in ApproveIds :
          /\ (approveCalls[a].pc = "idle" /\ approveCalls'[a].pc = "awaiting") => pending' = FALSE
          /\ (approveCalls[a].pc = "awaiting" /\ approveCalls'[a].pc = "failed") =>
                /\ pending' = pending
                /\ cacheChats' = cacheChats
                /\ cachePendingChats' = cachePendingChats
                /\ emitted' = emitted
          /\ approveCalls[a].pc = "failed" => approveCalls'[a].pc = "failed"]_vars

\* C11 witness: approve was called on a pending chat of the pendingChats
\* cache and its network call rejected: pending is false, the chat is still
\* in pendingChats and not in chats, and no event was emitted.
C11_Witness ==
    /\ approveCalls[1].pc = "failed"
    /\ approveCalls[1].wasPending
    /\ pending = FALSE
    /\ ThreadID \in cachePendingChats
    /\ ThreadID \notin cacheChats
    /\ emitted = <<>>
    /\ Len(messages) > 0

TimerState == <<typing, disableTypingOnSend, stopTypingTimeout, keepTypingAliveInterval,
                timeouts, intervals>>

\* C12: the step that calls sendPhoto and the step at which the verification
\* of its attachment rejects leave messages, the waiters, typing and the
\* timers as they are; the send has issued no broadcast, and a failed send
\* never issues one afterwards.
C12_VerifyFails ==
    [][\A s \in SendIds :
          /\ ((sends[s].pc = "idle" /\ sends'[s].pc = "verifying")
                \/ (sends[s].pc = "verifying" /\ sends'[s].pc = "failed")) =>
                /\ sends'[s].broadcasts = 0
                /\ messages' = messages
                /\ sentMessagesPromises' = sentMessagesPromises
                /\ TimerState' = TimerState
          /\ sends[s].pc = "failed" => sends'[s] = sends[s]]_vars

\* C12 witness: a sendPhoto whose verification rejected during a typing
\* session: no broadcast was issued, no waiter registered, the session and
\* its timers are as startTyping left them.
C12_Witness ==
    /\ sends[1].pc = "failed"
    /\ sends[1].broadcasts = 0
    /\ sentMessagesPromises = EmptyMap
    /\ typing
    /\ timeouts = {1}
    /\ intervals = {1}

\* the send whose response is handled by the step, if any
Handled(s) == sends[s].pc = "broadcasting" /\ sends'[s].pc = "responded"

\* C15: every waiter is keyed by the identifier its own send was answered
\* with, so sends answered with distinct identifiers have separate waiters;
\* the step that handles the response of one send leaves the waiter and the
\* promise of every other send as they are; a waiter is removed only when
\* its own identifier is a key of messages; and a promise is resolved only
\* with the message stored under the identifier of its own send.
C15_IndependentSends ==
    [][/\ \A k \in DOMAIN sentMessagesPromises' :
             /\ sends'[sentMessagesPromises'[k]].item = k
             /\ sends'[sentMessagesPromises'[k]].promise.st = "pending"
       /\ \A s, t \in SendIds :
             (s # t /\ Handled(t)) =>
                 /\ sends'[s] = sends[s]
                 /\ \A k \in DOMAIN sentMessagesPromises :
                        sentMessagesPromises[k] = s =>
                            /\ k \in DOMAIN sentMessagesPromises'
                            /\ sentMessagesPromises'[k] = s
       /\ \A k \in DOMAIN sentMessagesPromises :
             k \notin DOMAIN sentMessagesPromises' => MsgHas(messages', k)
       /\ \A s \in SendIds :
             (sends[s].promise.st = "pending" /\ sends'[s].promise.st = "resolved") =>
                 /\ sends'[s].promise.val.item_id = sends'[s].item
                 /\ sends'[s].promise.val = MsgGet(messages', sends'[s].item)
       /\ \A s \in SendIds :
             sends[s].promise.st = "resolved" => sends'[s].promise = sends[s].promise]_vars

\* C15 witness: two sends were answered with distinct identifiers; the first
\* was resolved by a merge of its identifier while the waiter of the second
\* is still registered under its own identifier and its promise is pending.
C15_Witness ==
    /\ sends[1].pc = "responded" /\ sends[2].pc = "responded"
    /\ sends[1].item # sends[2].item
    /\ sends[1].promise.by = "merge"
    /\ sends[1].promise.val.item_id = sends[1].item
    /\ sends[2].promise.st = "pending"
    /\ DOMAIN sentMessagesPromises = {sends[2].item}
    /\ sentMessagesPromises[sends[2].item] = 2

\* C16: between callbacks no identifier is both a key of messages and a key
\* of _sentMessagesPromises.
C16_NoWaiterForStoredMessage ==
    MsgKeys(messages) \cap DOMAIN sentMessagesPromises = {}

\* C16 witness: the identifiers of two answered sends are both keys of
\* messages, one inserted by a merge before the response and one by a merge
\* after it, and no waiter is left.
C16_Witness ==
    /\ sends[1].promise.by = "response"
    /\ sends[2].promise.by = "merge"
    /\ {sends[1].item, sends[2].item} \subseteq MsgKeys(messages)
    /\ sends[1].item # sends[2].item
    /\ sentMessagesPromises = EmptyMap

\* C17: a scheduled repeating timer that fires while typing is false is not
\* scheduled after that firing.
C17_IntervalCancelsItself ==
    \A c \in StartIds :
        (c \in intervals /\ typing = FALSE) =>
            ~ ENABLED (keepTypingAliveIntervalFires(c) /\ c \in intervals')

\* the most recent startTyping call, 0 before the first
LatestStart ==
    IF \A c \in StartIds : startCalls[c].pc = "idle" THEN 0
    ELSE CHOOSE c \in StartIds :
             /\ startCalls[c].pc # "idle"
             /\ \A b \in StartIds : b > c => startCalls[b].pc = "idle"

\* C18: once the most recent startTyping call has set its timers and typing
\* is true, the firing of a one-shot timer created by an earlier call
\* leaves typing true and sends no is-inactive signal.
C18_OnlyOwnTimerEnds ==
    [][\A c \in StartIds :
          (/\ LatestStart # 0
           /\ startCalls[LatestStart].pc = "done"
           /\ typing
           /\ c # LatestStart
           /\ c \in timeouts
           /\ c \notin timeouts') =>
              /\ typing' = TRUE
              /\ nInactive' = nInactive]_vars

\* C19: handling a broadcast response while the most recent startTyping
\* call, made with disableOnSend true or omitted, is still awaiting its
\* signal call sends no is-active signal.
C19_NoKeepAliveWhileStarting ==
    [][\A s \in SendIds :
          (/\ Handled(s)
           /\ LatestStart # 0
           /\ startCalls[LatestStart].pc = "awaiting"
           /\ startCalls[LatestStart].disableOnSend \in {"true", "undefined"}) =>
              nActive' = nActive]_vars

\* every entry of the collection is the object the cache holds for its key
SameAsCache(coll) ==
    \A u \in DOMAIN coll : u \in DOMAIN cacheUsers /\ coll[u] = cacheUsers[u]

\* what the merge of snapshot d by the chat in state st does to the cache:
\* no cached identifier is bound to another object, the object of every
\* user the snapshot mentions has the fields of its record, and the object
\* of every other cached user is as it was
MergeKeepsCache(d, st) ==
    LET r == PatchResult(d, st)
        mentioned == d.users \o d.left_users
    IN  /\ \A u \in DOMAIN cacheUsers :
               /\ u \in DOMAIN r.cacheUsers
               /\ r.cacheUsers[u] = cacheUsers[u]
               /\ u \notin Pks(mentioned) => r.userHeap[cacheUsers[u]] = userHeap[cacheUsers[u]]
        /\ \A k \in 1..Len(mentioned) :
               /\ mentioned[k].pk \in DOMAIN r.cacheUsers
               /\ r.userHeap[r.cacheUsers[mentioned[k].pk]] = UserNew(mentioned[k])
        /\ \A u \in DOMAIN r.users : r.users[u] = r.cacheUsers[u]
        /\ \A u \in DOMAIN r.leftUsers : r.leftUsers[u] = r.cacheUsers[u]

\* C13: with two chats sharing the user cache, every entry of users and
\* leftUsers of either chat is the object the cache holds for that
\* identifier, the cache holds one object per identifier, and a merge by
\* either chat never binds a cached identifier to another object and leaves
\* the object of every user it mentions with the fields of the snapshot's
\* record.
C13_CacheIdentity ==
    /\ SameAsCache(users) /\ SameAsCache(leftUsers) /\ SameAsCache(peerUsers)
    /\ \A u \in DOMAIN cacheUsers : userHeap[cacheUsers[u]].pk = u
    /\ \A i, j \in 1..Len(userHeap) : userHeap[i].pk = userHeap[j].pk => i = j
    /\ \A d \in CacheSnapshots : MergeKeepsCache(d, ChatState)
    /\ \A d \in PeerSnapshots : MergeKeepsCache(d, PeerState)

\* C13 witness: user 1 was merged by both chats and user 2 left this chat;
\* both chats hold the one object of user 1 the cache holds, and two User
\* objects exist.
C13_Witness ==
    /\ 1 \in DOMAIN users /\ 1 \in DOMAIN peerUsers
    /\ users[1] = cacheUsers[1] /\ peerUsers[1] = cacheUsers[1]
    /\ 2 \in DOMAIN leftUsers /\ 2 \in DOMAIN peerUsers
    /\ userHeap[cacheUsers[1]].username = "b"
    /\ Len(userHeap) = 2

\* the fields C14 lists, of a result of _patch
Listed(r) ==
    <<r.adminUserIDs, r.lastActivityAt, r.muted, r.isPin, r.named, r.pending, r.isGroup,
      r.type, r.users, r.leftUsers, r.messages, r.cacheUsers, r.userHeap>>

\* C14: from every state and for every snapshot, _patch applied to the
\* result of _patch with the same snapshot gives the same scalar fields and
\* the same users, leftUsers, messages and user cache, keys and contents.
C14_Idempotent ==
    \A d \in PatchSnapshots :
        Listed(PatchResult(d, PatchResult(d, ChatState))) = Listed(PatchResult(d, ChatState))

\* C14 witness: a chat of a group with a member, a former member and two
\* messages, in which another merge of a snapshot changes members, messages
\* and attributes.
C14_Witness ==
    /\ DOMAIN users = {1} /\ DOMAIN leftUsers = {2}
    /\ Len(messages) = 2
    /\ isGroup /\ lastActivityAt = MaxTime
    /\ \E d \in PatchSnapshots :
           LET r == PatchResult(d, ChatState)
           IN  /\ r.users # users /\ r.leftUsers # leftUsers /\ r.userHeap # userHeap
               /\ r.messages # messages /\ r.isGroup # isGroup

\* C20 as stated: no merge leaves lastActivityAt smaller than it was.
C20_NeverDecreases == [][lastActivityAt' >= lastActivityAt]_vars

\* C20: from every state and for every snapshot, _patch leaves
\* lastActivityAt equal to the timestamp of the snapshot, so it is not
\* smaller than before exactly when the snapshot is not older than the
\* current value.
C20_LastMergeWins ==
    \A d \in TimedSnapshots :
        LET r == PatchResult(d, ChatState)
        IN  /\ r.lastActivityAt = d.last_activity_at
            /\ (r.lastActivityAt >= lastActivityAt) <=> (d.last_activity_at >= lastActivityAt)

\* C20 witness: the chat was constructed with the latest timestamp and a
\* merge of an older snapshot that brought a message has lowered
\* lastActivityAt.
C20_Witness ==
    /\ lastActivityAt < MaxTime
    /\ Len(messages) = 2

====
